---- MODULE Spec2Model ----
(***************************************************************************)
(* Agentic RAG control loop (agentic_rag.py), its critic and tool          *)
(* dispatcher, and the interactive shell (chat.py).                        *)
(*                                                                         *)
(* Python strings are modelled as sequences of characters/tokens, Python   *)
(* values that may be missing or None as tagged records (Absent, None,     *)
(* Str, List), and a raised exception as the frame position "raised" with  *)
(* the exception's class in exc.                                           *)
(***************************************************************************)
EXTENDS Integers, Sequences, FiniteSets, TLC

(***************************************************************************)
(* Bounds of the model.                                                    *)
(***************************************************************************)
MaxIterations == 2      \* max_iterations of a direct call ranges over 0..MaxIterations
MaxToolCalls  == 2      \* tool invocations carried by one gateway response
MaxResults    == 1      \* passages the retriever returns for a matching query
MaxTurns      == 2      \* input events the interactive shell reads
MaxInvocations == 2     \* agentic_rag calls a programmatic caller makes in one process

(***************************************************************************)
(* Program constants.                                                      *)
(***************************************************************************)
DefaultMaxIterations == 3     \* agentic_rag(user_query, max_iterations=3)
DefaultTopK          == 5     \* arguments.get("top_k", 5)
JsonFenceLen         == 7     \* cleaned_response[7:]
FenceLen             == 3     \* cleaned_response[3:], cleaned_response[:-3]

(***************************************************************************)
(* Python values.                                                          *)
(***************************************************************************)
Absent   == [t |-> "absent", v |-> <<>>]     \* key missing from a dict
None     == [t |-> "none",   v |-> <<>>]     \* None / JSON null
Str(s)   == [t |-> "str",    v |-> s]        \* a string, s its characters
List(l)  == [t |-> "list",   v |-> l]        \* a list

\* Python truthiness of an optional string or list (if context:, if tool_calls:)
Truthy(x) == x.t \in {"str", "list"} /\ x.v # <<>>

\* dict.get(key, default) on a field that may be absent
Get(field, default) == IF field.t = "absent" THEN default ELSE field

(***************************************************************************)
(* String operations used by the code.                                     *)
(***************************************************************************)
Whitespace == {" ", "\n"}

RECURSIVE LStrip(_)
LStrip(s) == IF s # <<>> /\ Head(s) \in Whitespace THEN LStrip(Tail(s)) ELSE s

RECURSIVE RStrip(_)
RStrip(s) == IF s # <<>> /\ s[Len(s)] \in Whitespace
             THEN RStrip(SubSeq(s, 1, Len(s) - 1)) ELSE s

\* str.strip()
Strip(s) == RStrip(LStrip(s))

\* str.startswith(p), str.endswith(p)
StartsWith(s, p) == Len(s) >= Len(p) /\ SubSeq(s, 1, Len(p)) = p
EndsWith(s, p)   == Len(s) >= Len(p) /\ SubSeq(s, Len(s) - Len(p) + 1, Len(s)) = p

\* s[n:] and s[:-n]
DropFirst(s, n) == SubSeq(s, n + 1, Len(s))
DropLast(s, n)  == SubSeq(s, 1, Len(s) - n)

\* str.lower(), on the letters the shell's inputs use
LowerChar(c) == CASE c = "Q" -> "q" [] c = "U" -> "u" [] c = "I" -> "i"
                  [] c = "T" -> "t" [] c = "E" -> "e" [] c = "X" -> "x"
                  [] OTHER -> c
\* (mutant) the comparison is case-sensitive
Lower_identity(s) == s

Lower(s) == [i \in 1..Len(s) |-> LowerChar(s[i])]

\* "bq" is the backquote character
Fence     == <<"bq", "bq", "bq">>
JsonFence == <<"bq", "bq", "bq", "j", "s", "o", "n">>

(***************************************************************************)
(* json.loads.  A JSON text is a sequence of characters in which a member  *)
(* "key": value of an object is one token (the lexical level is the        *)
(* standard library's).  A document is an object { members }, the          *)
(* empty array [ ] or the number 7, with optional surrounding and          *)
(* interior whitespace; everything else raises JSONDecodeError.            *)
(***************************************************************************)
NullV == "<null>"      \* JSON null as a member's value

\* the members (key, value) the model's documents use
Member(tok) ==
    CASE tok = "d=sufficient"       -> <<"decision", "sufficient">>
      [] tok = "d=insufficient"     -> <<"decision", "insufficient">>
      [] tok = "d=needs_refinement" -> <<"decision", "needs_refinement">>
      [] tok = "d=maybe"            -> <<"decision", "maybe">>
      [] tok = "r=text"             -> <<"reasoning", "because">>
      [] tok = "r=null"             -> <<"reasoning", NullV>>
      [] tok = "rq=null"            -> <<"refined_query", NullV>>
      [] tok = "rq=empty"           -> <<"refined_query", "">>
      [] tok = "rq=zta"             -> <<"refined_query", "zero trust tenets">>
      [] tok = "query=zt"           -> <<"query", "zero trust">>
      [] tok = "query=xyz"          -> <<"query", "xyzzy">>
      [] tok = "top_k=1"            -> <<"top_k", "1">>
      [] OTHER                      -> <<>>

IsMember(tok) == Member(tok) # <<>>

JSONDecodeError == [kind |-> "JSONDecodeError", members |-> <<>>]

json_loads(s) ==
    LET t    == Strip(s)
        body == SelectSeq(SubSeq(t, 2, Len(t) - 1), LAMBDA c : c \notin Whitespace)
    IN  IF Len(t) >= 2 /\ t[1] = "{" /\ t[Len(t)] = "}"
           /\ \A i \in 2..(Len(t) - 1) : t[i] \in Whitespace \/ IsMember(t[i])
        THEN [kind |-> "object", members |-> body]
        ELSE IF t = <<"[", "]">> THEN [kind |-> "array", members |-> <<>>]
        ELSE IF t = <<"7">> THEN [kind |-> "number", members |-> <<>>]
        ELSE JSONDecodeError

\* dict lookup in a parsed object: the value of the last member with that key
RECURSIVE Lookup(_, _)
Lookup(members, key) ==
    IF members = <<>> THEN Absent
    ELSE LET m == Member(members[Len(members)])
         IN  IF m[1] = key
             THEN (IF m[2] = NullV THEN None
                   ELSE IF m[2] = "" THEN Str(<<>>) ELSE Str(<<m[2]>>))
             ELSE Lookup(SubSeq(members, 1, Len(members) - 1), key)

(***************************************************************************)
(* critic_evaluate, after the gateway has answered (agentic_rag.py 94-117) *)
(***************************************************************************)
\* (mutant) the tagged fence cut one character short
CleanJsonPrefix_short(c) == DropFirst(c, JsonFenceLen - 1)

\* lines 96-107: strip, drop a leading fence, drop a trailing fence, strip
CleanJsonPrefix(c) == DropFirst(c, JsonFenceLen)

CleanPrefix(c) ==
    IF StartsWith(c, JsonFence) THEN CleanJsonPrefix(c)
    ELSE IF StartsWith(c, Fence) THEN DropFirst(c, FenceLen)
    ELSE c

CleanSuffix(c) == IF EndsWith(c, Fence) THEN DropLast(c, FenceLen) ELSE c

CleanResponse(text) == Strip(CleanSuffix(CleanPrefix(Strip(text))))

\* the dict json.loads returned, read through the three keys the code uses
Verdict(members) ==
    [decision      |-> Lookup(members, "decision"),
     reasoning     |-> Lookup(members, "reasoning"),
     refined_query |-> Lookup(members, "refined_query")]

NoVerdict == [decision |-> Absent, reasoning |-> Absent, refined_query |-> Absent]

\* (mutant) the handler answers insufficient
ParseErrorFallback_insufficient ==
    [decision      |-> Str(<<"insufficient">>),
     reasoning     |-> Str(<<"Parse error fallback">>),
     refined_query |-> None]

\* line 117
ParseErrorFallback ==
    [decision      |-> Str(<<"sufficient">>),
     reasoning     |-> Str(<<"Parse error fallback">>),
     refined_query |-> None]

Raise(e)  == [exc |-> e,  result |-> NoVerdict]
Return(v) == [exc |-> "", result |-> v]

\* what lines 110-112 do with the value json.loads returned: result.get on a
\* value that is no dict, and [:100] on a null reasoning, raise
UseParsed(parsed) ==
    IF parsed.kind # "object" THEN Raise("AttributeError")
    ELSE IF Lookup(parsed.members, "reasoning") = None THEN Raise("TypeError")
    ELSE Return(Verdict(parsed.members))

\* lines 94-117 on the gateway's reply (a string, or None when the reply
\* carries no content): what critic_evaluate returns or raises.  The handler
\* of line 113 catches json.JSONDecodeError and nothing else.
critic_parse(response) ==
    IF response.t # "str" THEN Raise("AttributeError")           \* None.strip()
    ELSE LET parsed == json_loads(CleanResponse(response.v))
         IN  IF parsed.kind = "JSONDecodeError"
             THEN Return(ParseErrorFallback)
             ELSE UseParsed(parsed)

(***************************************************************************)
(* The orchestrator's reading of a verdict (agentic_rag.py 177-198)        *)
(***************************************************************************)
Sufficient == Str(<<"sufficient">>)

\* (mutant) a verdict without decision counts as insufficient
Decision_insufficient(critic_result) ==
    Get(critic_result.decision, Str(<<"insufficient">>))

\* line 177
Decision(critic_result) == Get(critic_result.decision, Sufficient)

\* (mutant) the break is missing
ExitsLoop_never(branch) == FALSE

\* line 181: the branch that leaves the loop
ExitsLoop(branch) == branch = "break"

\* (mutant) a refined query is never used
Branch_norefine(critic_result) ==
    IF Decision(critic_result) = Sufficient THEN "break" ELSE "broaden"

\* lines 179-198: "break", "refine" or "broaden"
Branch(critic_result) ==
    IF Decision(critic_result) = Sufficient THEN "break"
    ELSE IF Decision(critic_result) = Str(<<"needs_refinement">>)
            /\ Truthy(Get(critic_result.refined_query, None))
    THEN "refine"
    ELSE "broaden"

RefineMessage(critic_result) ==
    [role |-> "user",
     content |-> Str(<<"The previous search wasn't quite right. Please search again with this refined query: ">>
                     \o critic_result.refined_query.v),
     tool_calls |-> <<>>, tool_call_id |-> ""]

BroadenMessage ==
    [role |-> "user",
     content |-> Str(<<"The retrieved information wasn't sufficient. Please try a broader or different search.">>),
     tool_calls |-> <<>>, tool_call_id |-> ""]

(***************************************************************************)
(* Retrieval and formatting (vector_store.py)                              *)
(***************************************************************************)
NumStr(i) == CASE i = 1 -> "1" [] i = 2 -> "2" [] i = 3 -> "3" [] i = 4 -> "4"
               [] i = 5 -> "5" [] OTHER -> "n"

\* chunk_metadata.json: entry j describes the j-th vector
Metadata(ntotal) ==
    [j \in 1..ntotal |-> [filename |-> "sp800-207.pdf", page_num |-> NumStr(2 * j + 1),
                          text |-> IF j = 1 THEN "zero trust is ..." ELSE "tenets of zero trust ..."]]

\* index.search(query_np, top_k): top_k slots, the nearest vectors first and
\* -1 in the slots the index cannot fill
SearchIndices(ntotal, top_k) ==
    [i \in 1..top_k |-> IF i <= ntotal THEN i - 1 ELSE -1]

\* retrieve, lines 101-118 (0-based idx into metadata)
retrieve(ntotal, top_k) ==
    LET indices == SearchIndices(ntotal, top_k)
        kept    == SelectSeq(indices, LAMBDA idx : ~(idx < 0 \/ idx >= ntotal))
    IN  [i \in 1..Len(kept) |->
            LET m == Metadata(ntotal)[kept[i] + 1]
            IN  [text |-> m.text,
                 citation |-> <<"[", m.filename, ", Page ", m.page_num, "]">>]]

NoRelevant == <<"No relevant information found.">>

RECURSIVE JoinParts(_, _)
JoinParts(parts, sep) ==
    IF parts = <<>> THEN <<>>
    ELSE IF Len(parts) = 1 THEN parts[1]
    ELSE parts[1] \o sep \o JoinParts(Tail(parts), sep)

\* (mutant) nothing found is the empty string
format_context_empty(results) ==
    IF results = <<>> THEN <<>>
    ELSE JoinParts([i \in 1..Len(results) |->
                       <<"[Source ", NumStr(i), "] ">> \o results[i].citation
                         \o <<"\n", results[i].text, "\n">>],
                   <<"\n---\n">>)

\* format_context, lines 121-131
format_context(results) ==
    IF results = <<>> THEN NoRelevant
    ELSE JoinParts([i \in 1..Len(results) |->
                       <<"[Source ", NumStr(i), "] ">> \o results[i].citation
                         \o <<"\n", results[i].text, "\n">>],
                   <<"\n---\n">>)

(***************************************************************************)
(* execute_tool (agentic_rag.py 52-64)                                     *)
(***************************************************************************)
SearchTool == "search_nist_knowledge"

IsSearch(tool_name) == tool_name = SearchTool

UnknownTool(tool_name) == <<"Unknown tool: ", tool_name>>

\* top_k = arguments.get("top_k", 5)
TopK(arguments) ==
    IF Lookup(arguments.members, "top_k") = Str(<<"1">>) THEN 1 ELSE DefaultTopK

\* get_index (lines 45-49): load_index runs only while _index is None
get_index(cached, file) ==
    IF cached THEN [exc |-> "", loads |-> 0, cached |-> TRUE]
    ELSE IF file.present THEN [exc |-> "", loads |-> 1, cached |-> TRUE]
    ELSE [exc |-> "FileNotFoundError", loads |-> 1, cached |-> FALSE]

\* (mutant) an unregistered tool raises
execute_tool_strict(tool_name, arguments, cached, file, embed_ok) ==
    IF IsSearch(tool_name)
    THEN [exc |-> "AttributeError", value |-> <<>>, loads |-> 0, embeds |-> 0,
          cached |-> cached]
    ELSE [exc |-> "ValueError", value |-> <<>>, loads |-> 0, embeds |-> 0, cached |-> cached]

\* execute_tool on parsed arguments: the string it returns or the exception
\* it raises, the load_index and azure_embed calls it makes, and _index after
execute_tool(tool_name, arguments, cached, file, embed_ok) ==
    IF IsSearch(tool_name)
    THEN IF arguments.kind # "object"
         THEN [exc |-> "AttributeError", value |-> <<>>, loads |-> 0, embeds |-> 0,
               cached |-> cached]
         ELSE LET gi == get_index(cached, file)
              IN  IF gi.exc # ""
                  THEN [exc |-> gi.exc, value |-> <<>>, loads |-> gi.loads, embeds |-> 0,
                        cached |-> gi.cached]
                  ELSE IF ~embed_ok
                  THEN [exc |-> "HTTPError", value |-> <<>>, loads |-> gi.loads,
                        embeds |-> 1, cached |-> gi.cached]
                  ELSE [exc |-> "", loads |-> gi.loads, embeds |-> 1, cached |-> gi.cached,
                        value |-> format_context(retrieve(file.ntotal, TopK(arguments)))]
    ELSE [exc |-> "", value |-> UnknownTool(tool_name), loads |-> 0, embeds |-> 0,
          cached |-> cached]

(***************************************************************************)
(* What the collaborators may answer                                       *)
(***************************************************************************)
\* content of a gateway message: missing, null, empty or a text
Contents == {Absent, None, Str(<<>>), Str(<<"Zero trust assumes no implicit trust.">>)}

\* a tool invocation: the registered tool, an unregistered one, and the
\* registered one with a truncated argument payload
SearchCall  == [name |-> SearchTool,       arguments |-> <<"{", "query=zt", "}">>]
UnknownCall == [name |-> "does_not_exist", arguments |-> <<"{", "}">>]
BrokenCall  == [name |-> SearchTool,       arguments |-> <<"{", "query=zt">>]
CallId(i) == <<"call_", NumStr(i)>>

WithIds(kinds) ==
    [i \in 1..Len(kinds) |-> [id |-> CallId(i), name |-> kinds[i].name,
                              arguments |-> kinds[i].arguments]]

\* k invocations that alternate the registered and the unregistered tool
Alternating(k, first, second) ==
    [i \in 1..k |-> IF i % 2 = 1 THEN first ELSE second]

\* the invocation lists a reply may carry: one invocation of each kind, and
\* up to MaxToolCalls invocations alternating the two tools in either order
ToolCallLists ==
    {WithIds(<<SearchCall>>), WithIds(<<UnknownCall>>), WithIds(<<BrokenCall>>)}
      \cup {WithIds(Alternating(k, SearchCall, UnknownCall)) : k \in 2..MaxToolCalls}
      \cup {WithIds(Alternating(k, UnknownCall, SearchCall)) : k \in 2..MaxToolCalls}

\* replies of the tool-augmented completion inside the loop
LoopReplies ==
    {[content |-> c, tool_calls |-> t] : c \in Contents, t \in {Absent, None}}
      \cup {[content |-> None, tool_calls |-> List(l)] : l \in ToolCallLists}

\* the replies explored inside a turn of the interactive shell: those with
\* at most one invocation (replies with several are explored by direct calls)
TurnReplies ==
    {r \in LoopReplies : r.tool_calls.t = "list" => Len(r.tool_calls.v) = 1}

\* replies of the synthesis call (no tools are offered)
SynthReplies == {[content |-> c, tool_calls |-> Absent] : c \in Contents}

\* replies of the plain completion to the critic prompt, inside the loop
LoopCriticReplies ==
    {Str(<<"{", "d=sufficient", "r=text", "rq=null", "}">>),
     Str(JsonFence \o <<"\n", "{", "d=insufficient", "r=text", "}", "\n">> \o Fence),
     Str(Fence \o <<"\n", "{", "d=needs_refinement", "r=text", "rq=zta", "}", "\n">> \o Fence),
     Str(<<"{", "d=needs_refinement", "rq=null", "}">>),
     Str(<<"{", "d=needs_refinement", "r=text", "rq=empty", "}">>),
     Str(<<"{", "d=maybe", "r=text", "rq=zta", "}">>),
     Str(<<"{", "r=text", "}">>),
     Str(<<"{", "rq=zta", "}">>),
     Str(<<"{", "d=insufficient", "r=text">>),
     Str(<<>>),
     Str(<<"[", "]">>),
     Str(<<"{", "d=insufficient", "r=null", "}">>),
     Str(<<"{", "r=null", "}">>),
     None}

\* the canned answers of the stubs: a part of what the collaborators may answer
StubContents == {None, Str(<<"Zero trust assumes no implicit trust.">>)}

StubLoopReplies ==
    {[content |-> c, tool_calls |-> Absent] : c \in StubContents}
      \cup {[content |-> None, tool_calls |-> List(WithIds(l))] :
               l \in {<<SearchCall>>, <<UnknownCall>>, <<BrokenCall>>,
                      <<UnknownCall, SearchCall>>}}

StubSynthReplies == {[content |-> c, tool_calls |-> Absent] : c \in StubContents}

StubCriticReplies ==
    {Str(<<"{", "d=sufficient", "r=text", "rq=null", "}">>),
     Str(JsonFence \o <<"\n", "{", "d=insufficient", "r=text", "}", "\n">> \o Fence),
     Str(Fence \o <<"\n", "{", "d=needs_refinement", "r=text", "rq=zta", "}", "\n">> \o Fence),
     Str(<<"{", "d=insufficient", "r=text">>),
     Str(<<"[", "]">>)}

\* lines the shell's input() may return
Lines == {<<"q">>, <<" ", "Q", "U", "I", "T", " ">>, <<"e", "x", "i", "t">>, <<>>,
          <<" ">>, <<"w", "h", "a", "t", " ", "i", "s", " ", "z", "t", "?">>}

ExitWords == {<<"q", "u", "i", "t">>, <<"e", "x", "i", "t">>, <<"q">>}

DirectQuery == Str(<<"What is zero trust architecture according to NIST?">>)

IndexFiles ==
    {[present |-> FALSE, ntotal |-> 0]}
      \cup {[present |-> TRUE, ntotal |-> n] : n \in 0..MaxResults}

(***************************************************************************)
(* State                                                                   *)
(***************************************************************************)
VARIABLES
    indexFile,       \* faiss_index.bin / chunk_metadata.json on disk
    index_cache,     \* agentic_rag._index is not None
    index_loads,     \* load_index executions of this process
    sh_pc,           \* chat.main: "none" (not the shell), "startup", "reading", "turn", "exited"
    turns,           \* input events the shell has read
    errors,          \* failures of agentic_rag the shell has reported
    exit_code,       \* -1 while running
    user_input,      \* chat.main: the stripped line of the turn (empty between turns)
    interrupted,     \* the shell was left by KeyboardInterrupt
    invocations,     \* agentic_rag calls started by a direct caller
    pc,              \* agentic_rag: "idle", "call_model", "exec_tool", "critic", "synth",
                     \*              "returned", "raised"
    user_query, max_iterations, messages, context, iteration,
    response,        \* the last tool-augmented reply (response / final_response)
    tool_calls, tc,  \* the invocations of the reply and the one being executed
    tool_results,    \* tool_result of each invocation executed in this iteration
                     \* (with criticLog, forgotten at the next tool-augmented call)
    result, exc,     \* the value returned, the exception raised
    ret_site,        \* "", "direct" (line 202) or "synthesis" (line 219)
    calls,           \* calls made by this invocation
    verdicts,        \* what each critic verdict of this invocation led to:
                     \* "break", "refine" or "broaden"
    criticLog,       \* the critic_evaluate call of this iteration: arguments, reply, outcome
    stubbed,         \* the gateway, the critic's gateway and the embedder are fixed
                     \* deterministic stubs (a call they have answered is answered
                     \* the same way again)
    memo,            \* what the stubs have answered so far, per kind of call
    history,         \* calls of this invocation to the stubs, in order (kept when stubbed)
    previous         \* the previous invocation: its calls and how it ended (kept when stubbed)

\* the ingestion side (vector_store.py, document_processor.py)
VARIABLES
    em_pc,           \* embed_with_retry: "idle", "attempt", "returned"
    embed_text,      \* its argument text
    max_retries,
    attempt,         \* the loop variable of line 26
    sleeps,          \* the arguments of time.sleep (line 33), in order
    gateway_log,     \* the outcomes of azure_embed (line 28), in order
    embedding,       \* what embed_with_retry returned: None or a vector
    bi_pc,           \* build_index: "none", "loop", "embedding", "returned", "raised"
    chunks,          \* its argument
    chunk_i,         \* the enumerate position i of line 46
    embeddings, metadata,
    index,           \* the vectors added to the IndexFlatL2, in order (index.ntotal is
                     \* their number)
    outcomes,        \* what embed_with_retry returned for each chunk visited, in order
    ct_pc,           \* chunk_text: "idle", "start", "loop", "returned"
    tokens_len,      \* len(tokens) of line 42
    chunk_size, overlap,
    start,
    ct_chunks        \* the list chunks of chunk_text: the slice tokens[start:end] behind
                     \* each chunk

shellVars == <<sh_pc, turns, errors, exit_code, user_input, interrupted>>
frameVars == <<pc, user_query, max_iterations, messages, context, iteration, response,
               tool_calls, tc, tool_results, result, exc, ret_site>>
traceVars == <<invocations, calls, verdicts, criticLog>>
stubVars == <<stubbed, memo, history, previous>>
embedVars == <<em_pc, embed_text, max_retries, attempt, sleeps, gateway_log, embedding>>
buildVars == <<bi_pc, chunks, chunk_i, embeddings, metadata, index, outcomes>>
chunkVars == <<ct_pc, tokens_len, chunk_size, overlap, start, ct_chunks>>
ingestVars == <<embedVars, buildVars, chunkVars>>
agentVars == <<indexFile, index_cache, index_loads, shellVars, frameVars, traceVars, stubVars>>
vars == <<agentVars, ingestVars>>

NoCalls == [loop |-> 0, synth |-> 0, critic |-> 0, plain |-> 0, exec |-> 0,
            load |-> 0, embed |-> 0]
NoReply == [content |-> Absent, tool_calls |-> Absent]
NoCritic == [called |-> FALSE, query |-> None, context |-> None, reply |-> None,
             failed |-> FALSE, out |-> Raise("")]

Bump(c, f) == [c EXCEPT ![f] = @ + 1]

\* a call to a collaborator: its arguments and what came back
Args(msgs, q, ctx, k) == [messages |-> msgs, query |-> q, context |-> ctx, top_k |-> k]
Outcome(failed, reply) == [failed |-> failed, reply |-> reply]
NoMemo == [loop |-> {}, critic |-> {}, synth |-> {}, embed |-> {}]
NoPrevious == [ran |-> FALSE, warm |-> FALSE, trace |-> <<>>, pc |-> "idle",
               result |-> None, exc |-> ""]

\* a fixed deterministic stub answers equal arguments equally
Consistent(kind, args, out) ==
    stubbed => \A e \in memo[kind] : e.args = args => e.out = out

Remember(kind, args, out) ==
    IF stubbed THEN [memo EXCEPT ![kind] = @ \cup {[args |-> args, out |-> out]}] ELSE memo

\* the answers a collaborator draws from
Offered(answers, canned) == IF stubbed THEN canned ELSE answers

Logged(kind, args, out) ==
    IF stubbed THEN Append(history, [kind |-> kind, args |-> args, out |-> out]) ELSE history

\* the state of a fresh process, with collaborators that are free (stubs =
\* FALSE) or fixed deterministic stubs (stubs = TRUE)
Process(stubs) ==
    /\ indexFile \in IndexFiles
    /\ index_cache = FALSE /\ index_loads = 0
    /\ sh_pc \in {"none", "startup"}
    /\ turns = 0 /\ errors = 0 /\ exit_code = -1
    /\ user_input = <<>> /\ interrupted = FALSE
    /\ invocations = 0
    /\ pc = "idle"
    /\ user_query = None /\ max_iterations = 0 /\ messages = <<>>
    /\ context = None /\ iteration = 0 /\ response = NoReply
    /\ tool_calls = <<>> /\ tc = 0 /\ tool_results = <<>>
    /\ result = None /\ exc = "" /\ ret_site = ""
    /\ calls = NoCalls /\ verdicts = <<>> /\ criticLog = NoCritic
    /\ stubbed = stubs /\ memo = NoMemo /\ history = <<>> /\ previous = NoPrevious

\* no embed_with_retry call
EmbedIdle ==
    /\ em_pc = "idle" /\ embed_text = <<>> /\ max_retries = 0 /\ attempt = 0
    /\ sleeps = <<>> /\ gateway_log = <<>> /\ embedding = None

\* no build_index call
BuildIdle ==
    /\ bi_pc = "none" /\ chunks = <<>> /\ chunk_i = 0
    /\ embeddings = <<>> /\ metadata = <<>> /\ index = <<>> /\ outcomes = <<>>

\* no chunk_text call
ChunkIdle ==
    /\ ct_pc = "idle" /\ tokens_len = 0 /\ chunk_size = 0 /\ overlap = 0
    /\ start = 0 /\ ct_chunks = <<>>

Init == Process(FALSE) /\ EmbedIdle /\ BuildIdle /\ ChunkIdle

(***************************************************************************)
(* agentic_rag (agentic_rag.py 133-219)                                    *)
(***************************************************************************)
UserMessage(text) == [role |-> "user", content |-> text, tool_calls |-> <<>>,
                      tool_call_id |-> ""]

\* (mutant) the loop condition is off by one
LoopGuard_le(i, n) == i <= n

\* line 140
LoopGuard(i, n) == i < n

\* (mutant) the loop has no budget
AfterBody_unbounded(i, n) == "call_model"

\* where control goes when the loop condition is tested
AfterBody(i, n) == IF LoopGuard(i, n) THEN "call_model" ELSE "synth"

\* (mutant) the iteration counter outlives the call
Enter_stale(q, n) ==
    /\ user_query' = q /\ max_iterations' = n
    /\ messages' = <<UserMessage(q)>>
    /\ context' = None /\ iteration' = iteration
    /\ response' = NoReply /\ tool_calls' = <<>> /\ tc' = 0 /\ tool_results' = <<>>
    /\ result' = None /\ exc' = "" /\ ret_site' = ""
    /\ pc' = AfterBody(iteration, n)
    /\ calls' = NoCalls /\ verdicts' = <<>> /\ criticLog' = NoCritic

\* lines 134-140: a fresh frame, and the first test of the loop condition
Enter(q, n) ==
    /\ user_query' = q /\ max_iterations' = n
    /\ messages' = <<UserMessage(q)>>
    /\ context' = None /\ iteration' = 0
    /\ response' = NoReply /\ tool_calls' = <<>> /\ tc' = 0 /\ tool_results' = <<>>
    /\ result' = None /\ exc' = "" /\ ret_site' = ""
    /\ pc' = AfterBody(0, n)
    /\ calls' = NoCalls /\ verdicts' = <<>> /\ criticLog' = NoCritic

\* the frame is left by an exception: the conversation is dropped
Raised(e) ==
    /\ pc' = "raised" /\ exc' = e
    /\ messages' = <<>> /\ tool_calls' = <<>> /\ tc' = 0
    /\ UNCHANGED <<user_query, max_iterations, iteration, result, ret_site>>

\* the frame is left by return
Returned(v, site) ==
    /\ pc' = "returned" /\ result' = v /\ ret_site' = site
    /\ messages' = <<>> /\ tool_calls' = <<>> /\ tc' = 0
    /\ UNCHANGED <<user_query, max_iterations, iteration, exc>>

\* (mutant) the Context captured so far is preferred to the reply
DirectAnswer_context(reply) ==
    IF Truthy(context) THEN context
    ELSE Get(reply.content, Str(<<"I couldn't find relevant information.">>))

\* (mutant) content or the fixed string
DirectAnswer_or(reply) ==
    IF Truthy(reply.content) THEN reply.content
    ELSE Str(<<"I couldn't find relevant information.">>)

\* line 202
DirectAnswer(reply) == Get(reply.content, Str(<<"I couldn't find relevant information.">>))

\* line 219
FinalAnswer(reply) == Get(reply.content, Str(<<"Unable to generate response.">>))

\* a programmatic or command-line caller: agentic_rag(query, n)
Invoke ==
    /\ sh_pc = "none" /\ pc \in {"idle", "returned", "raised"}
    /\ invocations < MaxInvocations
    /\ invocations' = invocations + 1
    /\ \E n \in 0..MaxIterations :
         /\ (stubbed /\ invocations > 0) => n = max_iterations    \* the same call again
         /\ Enter(DirectQuery, n)
    /\ history' = <<>>
    /\ previous' = IF stubbed
                   THEN [ran |-> invocations > 0, warm |-> index_cache, trace |-> history,
                         pc |-> pc, result |-> result, exc |-> exc]
                   ELSE previous
    /\ UNCHANGED <<ingestVars, indexFile, index_cache, index_loads, shellVars, stubbed, memo>>

\* lines 141-150 and 199-202: the gateway call of one iteration fails
ModelFails ==
    /\ pc = "call_model"
    /\ Consistent("loop", Args(messages, None, None, 0), Outcome(TRUE, NoReply))
    /\ memo' = Remember("loop", Args(messages, None, None, 0), Outcome(TRUE, NoReply))
    /\ history' = Logged("loop", Args(messages, None, None, 0), Outcome(TRUE, NoReply))
    /\ UNCHANGED <<stubbed, previous>>
    /\ iteration' = iteration + 1
    /\ calls' = Bump(calls, "loop")
    /\ pc' = "raised" /\ exc' = "HTTPError"
    /\ messages' = <<>> /\ tool_calls' = <<>> /\ tc' = 0
    /\ tool_results' = <<>> /\ criticLog' = NoCritic
    /\ UNCHANGED <<user_query, max_iterations, result, ret_site, context, response>>
    /\ UNCHANGED <<ingestVars, indexFile, index_cache, index_loads, shellVars, invocations, verdicts>>

\* lines 141-150 and 199-202: the gateway answers
ModelResponds ==
    /\ pc = "call_model"
    /\ \E reply \in Offered(IF sh_pc = "turn" THEN TurnReplies ELSE LoopReplies,
                             StubLoopReplies) :
         /\ Consistent("loop", Args(messages, None, None, 0), Outcome(FALSE, reply))
         /\ memo' = Remember("loop", Args(messages, None, None, 0), Outcome(FALSE, reply))
         /\ history' = Logged("loop", Args(messages, None, None, 0), Outcome(FALSE, reply))
         /\ UNCHANGED <<stubbed, previous>>
         /\ response' = reply
         /\ calls' = Bump(calls, "loop")
         /\ tool_results' = <<>> /\ criticLog' = NoCritic
         /\ IF Truthy(Get(reply.tool_calls, List(<<>>)))
            THEN /\ iteration' = iteration + 1
                 /\ tool_calls' = reply.tool_calls.v /\ tc' = 1
                 /\ pc' = "exec_tool"
                 /\ UNCHANGED <<user_query, max_iterations, messages, result, exc, ret_site>>
            ELSE /\ iteration' = iteration + 1
                 /\ pc' = "returned" /\ result' = DirectAnswer(reply) /\ ret_site' = "direct"
                 /\ messages' = <<>> /\ tool_calls' = <<>> /\ tc' = 0
                 /\ UNCHANGED <<user_query, max_iterations, exc>>
    /\ UNCHANGED <<context>>
    /\ UNCHANGED <<ingestVars, indexFile, index_cache, index_loads, shellVars, invocations, verdicts>>

\* (mutant) the tool message is appended without its assistant message
ToolMessages_unpaired(call, tool_result) ==
    <<[role |-> "tool", content |-> Str(tool_result),
       tool_calls |-> <<>>, tool_call_id |-> call.id]>>

\* lines 161-172: the two messages appended for one executed invocation
ToolMessages(call, tool_result) ==
    <<[role |-> "assistant", content |-> None,
       tool_calls |-> <<call>>, tool_call_id |-> ""],
      [role |-> "tool", content |-> Str(tool_result),
       tool_calls |-> <<>>, tool_call_id |-> call.id]>>

\* (mutant) the results are accumulated
SetContext_merged(old, tool_result) ==
    IF old.t = "str" THEN Str(old.v \o tool_result) ELSE Str(tool_result)

\* line 158: context = tool_result
SetContext(old, tool_result) == Str(tool_result)

\* lines 152-172 for one invocation of the reply, then line 175 after the last
ExecuteTool ==
    /\ pc = "exec_tool"
    /\ LET call      == tool_calls[tc]
           arguments == json_loads(call.arguments)
       IN  IF arguments.kind = "JSONDecodeError"
           THEN /\ Raised("JSONDecodeError")                         \* line 154
                /\ UNCHANGED <<context, response, tool_results, calls, index_cache,
                               index_loads, memo, history>>
           ELSE \E embed_ok \in BOOLEAN :
                LET r == execute_tool(call.name, arguments, index_cache, indexFile, embed_ok)
                    c == [calls EXCEPT !.exec = @ + 1, !.load = @ + r.loads,
                                       !.embed = @ + r.embeds]
                    query == Get(Lookup(arguments.members, "query"), Str(<<>>))
                    found == IF r.exc = "" THEN Str(r.value) ELSE None
                IN  /\ IF r.embeds = 1           \* retrieve was called and has embedded
                       THEN /\ Consistent("embed", Args(<<>>, query, None, 0),
                                          Outcome(~embed_ok, None))
                            /\ memo' = Remember("embed", Args(<<>>, query, None, 0),
                                                Outcome(~embed_ok, None))
                            /\ history' = Logged("retrieve",
                                                 Args(<<>>, query, None, TopK(arguments)),
                                                 Outcome(~embed_ok, found))
                       ELSE UNCHANGED <<memo, history>>
                    /\ calls' = c
                    /\ index_cache' = r.cached
                    /\ index_loads' = index_loads + r.loads
                    /\ IF r.exc # ""
                       THEN /\ Raised(r.exc)
                            /\ UNCHANGED <<context, response, tool_results>>
                       ELSE /\ context' = SetContext(context, r.value)
                            /\ tool_results' = Append(tool_results, r.value)
                            /\ messages' = messages \o ToolMessages(call, r.value)
                            /\ IF tc < Len(tool_calls)
                               THEN /\ tc' = tc + 1 /\ pc' = "exec_tool"
                                    /\ UNCHANGED tool_calls
                               ELSE /\ tc' = 0 /\ tool_calls' = <<>>
                                    /\ pc' = IF Truthy(Str(r.value)) THEN "critic"
                                             ELSE AfterBody(iteration, max_iterations)
                            /\ UNCHANGED <<user_query, max_iterations, iteration, response,
                                           result, exc, ret_site>>
    /\ UNCHANGED <<ingestVars, indexFile, shellVars, invocations, verdicts, criticLog, stubbed,
                   previous>>

\* (mutant) the gateway call is inside the try block of a handler that
\* catches every exception
critic_evaluate_recovering(gateway) ==
    IF gateway.failed THEN Return(ParseErrorFallback) ELSE critic_parse(gateway.reply)

\* critic_evaluate (lines 84-117): the plain completion of line 92 is outside
\* the try block, so its failure leaves critic_evaluate as raised
critic_evaluate(gateway) ==
    IF gateway.failed THEN Raise("HTTPError") ELSE critic_parse(gateway.reply)

CriticCall(query, ctx, gateway) ==
    [called |-> TRUE, query |-> query, context |-> ctx,
     reply |-> gateway.reply, failed |-> gateway.failed, out |-> critic_evaluate(gateway)]

\* lines 176-198 for one answer of the gateway to the critic prompt
CriticOn(gateway) ==
    LET log == CriticCall(user_query, context, gateway)
        out == log.out
    IN  /\ Consistent("critic", Args(<<>>, user_query, context, 0),
                       Outcome(gateway.failed, gateway.reply))
        /\ memo' = Remember("critic", Args(<<>>, user_query, context, 0),
                            Outcome(gateway.failed, gateway.reply))
        /\ history' = Logged("critic", Args(<<>>, user_query, context, 0),
                             Outcome(gateway.failed, gateway.reply))
        /\ UNCHANGED <<stubbed, previous>>
        /\ criticLog' = log
        /\ calls' = [calls EXCEPT !.critic = @ + 1, !.plain = @ + 1]
        /\ IF out.exc # ""
           THEN /\ Raised(out.exc)
                /\ UNCHANGED verdicts
           ELSE /\ verdicts' = Append(verdicts, Branch(out.result))
                /\ messages' = CASE Branch(out.result) = "break"  -> messages
                                 [] Branch(out.result) = "refine" ->
                                      Append(messages, RefineMessage(out.result))
                                 [] OTHER -> Append(messages, BroadenMessage)
                /\ pc' = IF ExitsLoop(Branch(out.result)) THEN "synth"
                         ELSE AfterBody(iteration, max_iterations)
                /\ UNCHANGED <<user_query, max_iterations, iteration, tool_calls, tc,
                               result, exc, ret_site>>
        /\ UNCHANGED <<context, response, tool_results>>
        /\ UNCHANGED <<ingestVars, indexFile, index_cache, index_loads, shellVars, invocations>>

CriticFails ==
    /\ pc = "critic"
    /\ CriticOn([failed |-> TRUE, reply |-> None])

CriticAnswers ==
    /\ pc = "critic"
    /\ \E reply \in Offered(LoopCriticReplies, StubCriticReplies) :
         CriticOn([failed |-> FALSE, reply |-> reply])

\* lines 205-219
SynthFails ==
    /\ pc = "synth"
    /\ Consistent("synth", Args(messages, user_query, context, 0), Outcome(TRUE, NoReply))
    /\ memo' = Remember("synth", Args(messages, user_query, context, 0), Outcome(TRUE, NoReply))
    /\ history' = Logged("synth", Args(messages, user_query, context, 0),
                         Outcome(TRUE, NoReply))
    /\ UNCHANGED <<stubbed, previous>>
    /\ calls' = Bump(calls, "synth")
    /\ Raised("HTTPError")
    /\ tool_results' = <<>> /\ criticLog' = NoCritic
    /\ UNCHANGED <<context, response>>
    /\ UNCHANGED <<ingestVars, indexFile, index_cache, index_loads, shellVars, invocations, verdicts>>

SynthResponds ==
    /\ pc = "synth"
    /\ \E reply \in Offered(SynthReplies, StubSynthReplies) :
         /\ Consistent("synth", Args(messages, user_query, context, 0),
                       Outcome(FALSE, reply))
         /\ memo' = Remember("synth", Args(messages, user_query, context, 0),
                             Outcome(FALSE, reply))
         /\ history' = Logged("synth", Args(messages, user_query, context, 0),
                              Outcome(FALSE, reply))
         /\ UNCHANGED <<stubbed, previous>>
         /\ response' = reply
         /\ Returned(FinalAnswer(reply), "synthesis")
    /\ calls' = Bump(calls, "synth")
    /\ tool_results' = <<>> /\ criticLog' = NoCritic
    /\ UNCHANGED <<context>>
    /\ UNCHANGED <<ingestVars, indexFile, index_cache, index_loads, shellVars, invocations, verdicts>>

(***************************************************************************)
(* The interactive shell (chat.py)                                         *)
(***************************************************************************)
\* (mutant) the handler names the gateway's exception class only
ShellCatches_http(e) == e = "HTTPError"

\* except Exception (line 45): every exception class but the interrupt
ShellCatches(e) == e # "KeyboardInterrupt"

\* lines 11-17: load_index into locals of main; a missing index ends the process
ShellStart ==
    /\ sh_pc = "startup"
    /\ index_loads' = index_loads + 1
    /\ IF indexFile.present
       THEN sh_pc' = "reading" /\ exit_code' = exit_code
       ELSE sh_pc' = "exited" /\ exit_code' = 1
    /\ UNCHANGED <<ingestVars, indexFile, index_cache, turns, errors, user_input, interrupted,
                   frameVars, traceVars, stubVars>>

\* lines 25-38: one line of input
ShellRead ==
    /\ sh_pc = "reading" /\ turns < MaxTurns
    /\ turns' = turns + 1
    /\ \E line \in Lines :
         /\ user_input' = Strip(line)
         /\ IF Lower(user_input') \in ExitWords
            THEN /\ sh_pc' = "exited" /\ exit_code' = 0
                 /\ UNCHANGED <<frameVars, traceVars>>
            ELSE IF user_input' = <<>>
            THEN /\ UNCHANGED <<sh_pc, exit_code, frameVars, traceVars>>
            ELSE /\ sh_pc' = "turn" /\ exit_code' = exit_code
                 /\ Enter(Str(user_input'), DefaultMaxIterations)
                 /\ UNCHANGED invocations
    /\ UNCHANGED <<ingestVars, indexFile, index_cache, index_loads, errors, interrupted, stubVars>>

\* input() raises EOFError: line 45 handles it and the shell reads again
ShellInputFails ==
    /\ sh_pc = "reading" /\ turns < MaxTurns
    /\ turns' = turns + 1
    /\ IF ShellCatches("EOFError")
       THEN UNCHANGED <<sh_pc, exit_code>>
       ELSE sh_pc' = "exited" /\ exit_code' = 1
    /\ UNCHANGED <<errors, user_input, interrupted>>
    /\ UNCHANGED <<ingestVars, indexFile, index_cache, index_loads, frameVars, traceVars, stubVars>>

\* main returns or the process ends: the frame of the turn is gone
Forget ==
    /\ pc' = "idle"
    /\ user_query' = None /\ max_iterations' = 0 /\ messages' = <<>>
    /\ context' = None /\ iteration' = 0 /\ response' = NoReply
    /\ tool_calls' = <<>> /\ tc' = 0 /\ tool_results' = <<>>
    /\ result' = None /\ exc' = "" /\ ret_site' = ""
    /\ calls' = NoCalls /\ verdicts' = <<>> /\ criticLog' = NoCritic

\* lines 42-44: KeyboardInterrupt while reading or while a turn is processed
ShellInterrupt ==
    /\ \/ sh_pc = "reading" /\ turns < MaxTurns /\ turns' = turns + 1
       \/ sh_pc = "turn" /\ pc \notin {"returned", "raised"} /\ turns' = turns
    /\ sh_pc' = "exited" /\ exit_code' = 0 /\ interrupted' = TRUE
    /\ Forget
    /\ UNCHANGED <<ingestVars, indexFile, index_cache, index_loads, errors, user_input, invocations,
                   stubVars>>

\* lines 38-47: agentic_rag has returned or raised
ShellTurnEnds ==
    /\ sh_pc = "turn" /\ pc \in {"returned", "raised"}
    /\ IF pc = "returned"
       THEN UNCHANGED <<errors, exit_code>> /\ sh_pc' = "reading"
       ELSE IF ShellCatches(exc)
       THEN errors' = errors + 1 /\ sh_pc' = "reading" /\ UNCHANGED exit_code
       ELSE sh_pc' = "exited" /\ exit_code' = 1 /\ UNCHANGED errors
    /\ Forget
    /\ user_input' = <<>>           \* not read again before the next input() assigns it
    /\ UNCHANGED <<ingestVars, indexFile, index_cache, index_loads, turns, interrupted, invocations,
                   stubVars>>

AgentNext ==
    \/ ModelFails \/ ModelResponds \/ ExecuteTool
    \/ CriticFails \/ CriticAnswers \/ SynthFails \/ SynthResponds

Next ==
    \/ Invoke \/ ModelFails \/ ModelResponds \/ ExecuteTool
    \/ CriticFails \/ CriticAnswers \/ SynthFails \/ SynthResponds
    \/ ShellStart \/ ShellRead \/ ShellInputFails \/ ShellInterrupt \/ ShellTurnEnds

Spec == Init /\ [][Next]_vars

(***************************************************************************)
(* One process calling agentic_rag repeatedly with the same arguments,     *)
(* against fixed deterministic stubs of the gateway and the embedder       *)
(***************************************************************************)
InitStubbed == Process(TRUE) /\ sh_pc = "none" /\ EmbedIdle /\ BuildIdle /\ ChunkIdle

NextStubbed ==
    \/ Invoke \/ ModelFails \/ ModelResponds \/ ExecuteTool
    \/ CriticFails \/ CriticAnswers \/ SynthFails \/ SynthResponds

StubSpec == InitStubbed /\ [][NextStubbed]_vars

(***************************************************************************)
(* critic_evaluate on its own: a caller hands it one gateway reply         *)
(***************************************************************************)
\* verdict texts
JsonBodies ==
    {<<"{", "d=sufficient", "r=text", "rq=null", "}">>,
     <<"{", "d=insufficient", "r=text", "rq=null", "}">>,
     <<"{", "d=needs_refinement", "r=text", "rq=zta", "}">>,
     <<"{", " ", "d=needs_refinement", "\n", "rq=empty", "}">>,
     <<"{", "d=maybe", "r=text", "}">>,
     <<"{", "r=text", "}">>,
     <<"{", "}">>}

\* bare, or inside a fence with or without the json tag; optional
\* whitespace around the reply and between the fence and the text
Wrappings ==
    [fence : {"bare", "json", "plain"}, lead : {<<>>, <<" ">>},
     inner : {<<>>, <<"\n">>}, trail : {<<>>, <<"\n">>}]

Wrap(w, body) ==
    CASE w.fence = "bare"  -> w.lead \o body \o w.trail
      [] w.fence = "json"  -> w.lead \o JsonFence \o w.inner \o body \o w.inner \o Fence
                                \o w.trail
      [] OTHER             -> w.lead \o Fence \o w.inner \o body \o w.inner \o Fence
                                \o w.trail

\* texts that are no JSON document: truncated, empty, prose, a lone fence
BrokenTexts ==
    {DropLast(b, 1) : b \in JsonBodies}
      \cup {<<>>, <<" ">>, <<"j", "s", "o", "n">>, Fence,
            JsonFence \o <<"\n", "{", "d=insufficient">>}

CriticReplies ==
    {Str(Wrap(w, b)) : w \in Wrappings, b \in JsonBodies}
      \cup {Str(t) : t \in BrokenTexts}
      \cup {Str(<<"[", "]">>), Str(<<"7">>), None}

InitCritic == Init /\ sh_pc = "none" /\ indexFile.present /\ indexFile.ntotal = 0

\* critic_evaluate(query, context) called with the sentinel context
CriticReturns ==
    /\ sh_pc = "none" /\ pc = "idle"
    /\ \E reply \in CriticReplies :
         criticLog' = CriticCall(DirectQuery, Str(NoRelevant),
                                 [failed |-> FALSE, reply |-> reply])
    /\ calls' = [NoCalls EXCEPT !.critic = 1, !.plain = 1]
    /\ UNCHANGED <<ingestVars, indexFile, index_cache, index_loads, shellVars, frameVars, invocations,
                   verdicts, stubVars>>

CriticRaises ==
    /\ sh_pc = "none" /\ pc = "idle"
    /\ criticLog' = CriticCall(DirectQuery, Str(NoRelevant), [failed |-> TRUE, reply |-> None])
    /\ calls' = [NoCalls EXCEPT !.critic = 1, !.plain = 1]
    /\ UNCHANGED <<ingestVars, indexFile, index_cache, index_loads, shellVars, frameVars, invocations,
                   verdicts, stubVars>>

NextCritic == CriticReturns \/ CriticRaises

CriticSpec == InitCritic /\ [][NextCritic]_vars

(***************************************************************************)
(* Building the index (vector_store.py 25-72): embed_with_retry on its     *)
(* own, and build_index calling it for each chunk                          *)
(***************************************************************************)
MaxRetries == 3
MaxChunks == 2
DefaultMaxRetries == 3

\* the callers' idle agent process
AgentIdle == Process(FALSE) /\ sh_pc = "none" /\ indexFile.present /\ indexFile.ntotal = 0

\* texts handed to the embedder
Texts == {<<"zero trust is ...">>, <<"tenets of zero trust ...">>}

\* what azure_embed raises: raise_for_status, a body without "data"
GatewayErrors == {"HTTPError", "KeyError"}

\* the vector azure_embed returns for a text
azure_embed(text) == [vector_of |-> text]

\* line 31
wait_time(a) == 2 ^ a

\* (mutant) the last attempt is followed by a wait as well
Retries_always(a, n) == a < n

\* line 30: another attempt follows
Retries(a, n) == a < n - 1

\* the call embed_with_retry(text, max_retries = n)
EmbedEnter(text, n) ==
    /\ em_pc' = "attempt" /\ embed_text' = text /\ max_retries' = n /\ attempt' = 0
    /\ sleeps' = <<>> /\ gateway_log' = <<>> /\ embedding' = None

\* lines 26-28: azure_embed answers and its vector is returned
EmbedSucceeds ==
    /\ em_pc = "attempt" /\ attempt < max_retries
    /\ gateway_log' = Append(gateway_log, [failed |-> FALSE, e |-> "",
                                          vector |-> azure_embed(embed_text)])
    /\ embedding' = azure_embed(embed_text)
    /\ em_pc' = "returned"
    /\ UNCHANGED <<embed_text, max_retries, attempt, sleeps>>
    /\ UNCHANGED <<agentVars, buildVars, chunkVars>>

\* lines 26-36: azure_embed raises; wait and go round, or give up with None
EmbedFails ==
    /\ em_pc = "attempt" /\ attempt < max_retries
    /\ \E e \in GatewayErrors :
         gateway_log' = Append(gateway_log, [failed |-> TRUE, e |-> e, vector |-> None])
    /\ IF Retries(attempt, max_retries)
         THEN /\ sleeps' = Append(sleeps, wait_time(attempt))
              /\ attempt' = attempt + 1
              /\ UNCHANGED <<em_pc, embedding>>
         ELSE /\ embedding' = None /\ em_pc' = "returned"
              /\ UNCHANGED <<sleeps, attempt>>
    /\ UNCHANGED <<embed_text, max_retries>>
    /\ UNCHANGED <<agentVars, buildVars, chunkVars>>

\* line 26 with the range used up (max_retries <= 0 from the start): the
\* function ends without a return statement
EmbedFallsThrough ==
    /\ em_pc = "attempt" /\ ~(attempt < max_retries)
    /\ embedding' = None /\ em_pc' = "returned"
    /\ UNCHANGED <<embed_text, max_retries, attempt, sleeps, gateway_log>>
    /\ UNCHANGED <<agentVars, buildVars, chunkVars>>

\* chunk records as process_pdf writes them (document_processor.py 74-80)
ChunkPool ==
    {[chunk_id |-> "a_chunk_0", filename |-> "a.pdf", page_num |-> 1,
      text |-> <<"zero trust is ...">>, token_count |-> 5],
     [chunk_id |-> "a_chunk_1", filename |-> "a.pdf", page_num |-> 2,
      text |-> <<"tenets of zero trust ...">>, token_count |-> 6],
     [chunk_id |-> "b_chunk_0", filename |-> "b.pdf", page_num |-> 1,
      text |-> <<"zero trust is ...">>, token_count |-> 5]}

ChunkLists == UNION {[1..len -> ChunkPool] : len \in 0..MaxChunks}

\* lines 54-59
MetadataOf(chunk) ==
    [chunk_id |-> chunk.chunk_id, filename |-> chunk.filename,
     page_num |-> chunk.page_num, text |-> chunk.text]

\* (mutant) a failed embedding is kept like any other
Skips_never(v) == FALSE

\* line 49
Skips(v) == v = None

\* lines 67-69 hand the list to numpy and faiss, which are not part of the
\* sources: with no embedding at all the array has no second dimension, and
\* IndexFlatL2.add either rejects it or adds nothing
AddOutcomes(vectors) == IF vectors = <<>> THEN {"raised", "returned"} ELSE {"returned"}

\* lines 46-47: the next chunk is handed to embed_with_retry
BuildEmbeds ==
    /\ bi_pc = "loop" /\ chunk_i < Len(chunks)
    /\ EmbedEnter(chunks[chunk_i + 1].text, DefaultMaxRetries)
    /\ bi_pc' = "embedding"
    /\ UNCHANGED <<chunks, chunk_i, embeddings, metadata, index, outcomes>>
    /\ UNCHANGED <<agentVars, chunkVars>>

\* lines 49-64: a chunk without embedding is skipped, any other is appended to
\* both lists (the progress line and the pause change nothing)
BuildAppends ==
    /\ bi_pc = "embedding" /\ em_pc = "returned"
    /\ outcomes' = Append(outcomes, embedding)
    /\ IF Skips(embedding)
         THEN UNCHANGED <<embeddings, metadata>>
         ELSE /\ embeddings' = Append(embeddings, embedding)
              /\ metadata' = Append(metadata, MetadataOf(chunks[chunk_i + 1]))
    /\ chunk_i' = chunk_i + 1
    /\ bi_pc' = "loop" /\ em_pc' = "idle"
    /\ UNCHANGED <<chunks, index>>
    /\ UNCHANGED <<embed_text, max_retries, attempt, sleeps, gateway_log, embedding>>
    /\ UNCHANGED <<agentVars, chunkVars>>

\* lines 67-72: the vectors go into the index in list order
BuildAdds ==
    /\ bi_pc = "loop" /\ ~(chunk_i < Len(chunks))
    /\ \E outcome \in AddOutcomes(embeddings) :
         /\ bi_pc' = outcome
         /\ index' = IF outcome = "returned" THEN embeddings ELSE index
    /\ UNCHANGED <<chunks, chunk_i, embeddings, metadata, outcomes>>
    /\ UNCHANGED <<agentVars, embedVars, chunkVars>>

\* a caller of embed_with_retry(text, max_retries = n), or of build_index(chunks)
InitIndex ==
    /\ AgentIdle /\ ChunkIdle
    /\ \/ /\ BuildIdle
          /\ em_pc = "attempt" /\ embed_text \in Texts /\ max_retries \in 0..MaxRetries
          /\ attempt = 0 /\ sleeps = <<>> /\ gateway_log = <<>> /\ embedding = None
       \/ /\ EmbedIdle
          /\ bi_pc = "loop" /\ chunks \in ChunkLists /\ chunk_i = 0
          /\ embeddings = <<>> /\ metadata = <<>> /\ index = <<>> /\ outcomes = <<>>

NextIndex ==
    \/ EmbedSucceeds \/ EmbedFails \/ EmbedFallsThrough
    \/ BuildEmbeds \/ BuildAppends \/ BuildAdds

IndexSpec == InitIndex /\ [][NextIndex]_vars

(***************************************************************************)
(* chunk_text (document_processor.py 41-62).  Its control flow reads only  *)
(* len(tokens); a chunk is recorded as the slice tokens[start:end] that    *)
(* line 52 cuts (line 53 decodes it), the unsplit text of line 45 as the   *)
(* slice of all its tokens.                                                *)
(***************************************************************************)
MaxTokens == 6
MaxChunkSize == 3
CHUNK_SIZE == 750
CHUNK_OVERLAP == 100

Min(a, b) == IF a <= b THEN a ELSE b

Slice(from, to) == [start |-> from, end |-> to]

\* line 51
SliceEnd(s, size, len) == Min(s + size, len)

\* (mutant) the next chunk starts where the previous one was meant to end
Advance_full(s, size, ov) == s + size

\* line 57
Advance(s, size, ov) == s + (size - ov)

\* the arguments: small sizes with every overlap below the size, and the
\* defaults with texts around one and two chunks
ChunkArguments ==
    {[len |-> len, size |-> size, ov |-> ov] :
        len \in 0..MaxTokens, size \in 1..MaxChunkSize, ov \in 0..(MaxChunkSize - 1)}
    \cup {[len |-> len, size |-> CHUNK_SIZE, ov |-> CHUNK_OVERLAP] :
            len \in {CHUNK_SIZE, CHUNK_SIZE + 1, 2 * CHUNK_SIZE - CHUNK_OVERLAP,
                     2 * CHUNK_SIZE - CHUNK_OVERLAP + 1}}

\* lines 44-45: a text of at most chunk_size tokens is returned unsplit
ChunkWhole ==
    /\ ct_pc = "start" /\ tokens_len <= chunk_size
    /\ ct_chunks' = <<Slice(0, tokens_len)>>
    /\ ct_pc' = "returned"
    /\ UNCHANGED <<tokens_len, chunk_size, overlap, start>>
    /\ UNCHANGED <<agentVars, embedVars, buildVars>>

\* lines 47-48
ChunkEnter ==
    /\ ct_pc = "start" /\ ~(tokens_len <= chunk_size)
    /\ ct_chunks' = <<>> /\ start' = 0
    /\ ct_pc' = "loop"
    /\ UNCHANGED <<tokens_len, chunk_size, overlap>>
    /\ UNCHANGED <<agentVars, embedVars, buildVars>>

\* lines 50-60: one round of the loop; it is left by the break of line 60
\* (the loop condition of line 50 is then false as well)
ChunkSlice ==
    /\ ct_pc = "loop" /\ start < tokens_len
    /\ ct_chunks' = Append(ct_chunks, Slice(start, SliceEnd(start, chunk_size, tokens_len)))
    /\ start' = Advance(start, chunk_size, overlap)
    /\ ct_pc' = IF start' >= tokens_len THEN "returned" ELSE "loop"
    /\ UNCHANGED <<tokens_len, chunk_size, overlap>>
    /\ UNCHANGED <<agentVars, embedVars, buildVars>>

\* a caller of chunk_text with chunk_size > overlap >= 0
InitChunk ==
    /\ AgentIdle /\ EmbedIdle /\ BuildIdle
    /\ ct_pc = "start" /\ start = 0 /\ ct_chunks = <<>>
    /\ \E a \in ChunkArguments :
         /\ a.size > a.ov
         /\ tokens_len = a.len /\ chunk_size = a.size /\ overlap = a.ov

NextChunk == ChunkWhole \/ ChunkEnter \/ ChunkSlice

ChunkSpec == InitChunk /\ [][NextChunk]_vars

\* chunk_text is straight-line code: a call that can take a step takes it
ChunkFairSpec == ChunkSpec /\ WF_vars(NextChunk)

(***************************************************************************)
(* Properties                                                              *)
(***************************************************************************)
Last(seq) == seq[Len(seq)]

Running == pc \in {"call_model", "exec_tool", "critic", "synth"}

HasToolCalls(reply) == Truthy(Get(reply.tool_calls, List(<<>>)))

NoBreak == \A i \in 1..Len(verdicts) : verdicts[i] # "break"

FirstBreakAt(k) ==
    /\ k \in 1..Len(verdicts) /\ verdicts[k] = "break"
    /\ \A j \in 1..(k - 1) : verdicts[j] # "break"

\* C1: when the first tool-augmented reply of an invocation with
\* max_iterations >= 1 carries no tool invocation, agentic_rag has returned
\* that reply's content as it is, after one gateway call and no critic,
\* dispatcher or synthesis call.
C1_DirectAnswerFirst ==
    (/\ calls.loop = 1 /\ calls.synth = 0 /\ pc # "raised"
     /\ ~HasToolCalls(response))
      => /\ pc = "returned" /\ ret_site = "direct"
         /\ max_iterations >= 1
         /\ response.content.t # "absent" => result = response.content
         /\ calls = [NoCalls EXCEPT !.loop = 1]
         /\ verdicts = <<>>

C1_Witness ==
    /\ pc = "returned" /\ ret_site = "direct" /\ iteration = 1
    /\ max_iterations = DefaultMaxIterations
    /\ response.content = None /\ result = None
    /\ calls.loop = 1 /\ calls.critic = 0

\* C2: when the first sufficient verdict is the k-th, every reply before it
\* having carried tool invocations, the invocation has made exactly k loop
\* calls and k critic calls, makes exactly one synthesis call and returns
\* that call's content.
C2_SufficientAtK ==
    \A k \in 1..Len(verdicts) :
       FirstBreakAt(k) =>
          /\ Len(verdicts) = k /\ k <= max_iterations /\ iteration = k
          /\ calls.loop = k /\ calls.critic = k /\ calls.plain = k
          /\ pc \in {"synth", "returned", "raised"}
          /\ pc = "synth" => calls.synth = 0
          /\ pc = "raised" => calls.synth = 1 /\ exc = "HTTPError"
          /\ pc = "returned" =>
               /\ ret_site = "synthesis" /\ calls.synth = 1
               /\ response.content.t # "absent" => result = response.content

C2_Witness ==
    /\ pc = "returned" /\ ret_site = "synthesis"
    /\ verdicts = <<"refine", "break">>
    /\ calls.loop = 2 /\ calls.critic = 2 /\ calls.synth = 1
    /\ result = response.content /\ result.t = "str" /\ result.v # <<>>

\* C3: when no critic verdict is sufficient and the loop is left, exactly
\* max_iterations rounds have run, each with one critic call; exactly one
\* synthesis call follows and its content is returned, also when the
\* Context is None.
C3_IterationCap ==
    (NoBreak /\ (pc = "synth" \/ ret_site = "synthesis"))
      => /\ iteration = max_iterations
         /\ calls.loop = max_iterations /\ calls.critic = max_iterations
         /\ Len(verdicts) = max_iterations
         /\ context = None <=> max_iterations = 0
         /\ pc = "synth" => calls.synth = 0
         /\ pc = "returned" =>
              /\ calls.synth = 1
              /\ response.content.t # "absent" => result = response.content

C3_Witness ==
    /\ pc = "returned" /\ ret_site = "synthesis"
    /\ max_iterations = DefaultMaxIterations
    /\ verdicts = <<"broaden", "refine", "broaden">>
    /\ calls.loop = 3 /\ calls.critic = 3 /\ calls.synth = 1
    /\ result.t = "str" /\ result.v # <<>>

\* the Context is None when the synthesis call is made
C3_NullContextReached ==
    /\ pc = "returned" /\ ret_site = "synthesis" /\ context = None /\ calls.synth = 1

\* what is left of an invocation: the rounds the budget still allows, then
\* the steps left in the current round
Rank ==
    CASE pc = "call_model" -> <<max_iterations - iteration, 0>>
      [] pc = "exec_tool"  -> <<max_iterations - iteration, 2 + Len(tool_calls) - tc>>
      [] pc = "critic"     -> <<max_iterations - iteration, 1>>
      [] OTHER             -> <<0, 0>>

LexLess(a, b) == a[1] < b[1] \/ (a[1] = b[1] /\ a[2] < b[2])

\* C4: every invocation ends (returns or raises), having made at most
\* max_iterations loop calls, at most max_iterations critic calls and at
\* most one synthesis call, whatever the gateway and the critic answer:
\* a running invocation can always take a step, every step of it lowers
\* Rank, which never leaves the naturals, and the call counts stay within
\* the budget.
C4_Terminates ==
    /\ [](/\ calls.loop <= max_iterations /\ calls.critic <= max_iterations
          /\ calls.plain <= max_iterations /\ calls.synth <= 1
          /\ iteration <= max_iterations)
    /\ [](Rank[1] >= 0 /\ Rank[2] >= 0)
    /\ [](Running => ENABLED AgentNext)
    /\ [][(Running /\ Running') => LexLess(Rank', Rank)]_vars

C4_Witness ==
    /\ pc = "returned" /\ max_iterations = DefaultMaxIterations
    /\ verdicts = <<"refine", "refine", "refine">>
    /\ calls.loop = 3 /\ calls.critic = 3 /\ calls.synth = 1

\* C5: a critic reply that is no JSON document once its fence is stripped
\* makes critic_evaluate return the parse-error verdict without raising,
\* after its single gateway call, and the orchestrator leaves the loop in
\* that iteration.
NotJson(reply) ==
    reply.t = "str" /\ json_loads(CleanResponse(reply.v)).kind = "JSONDecodeError"

C5_ParseErrorFallback ==
    (criticLog.called /\ ~criticLog.failed /\ NotJson(criticLog.reply))
      => /\ criticLog.out = Return(ParseErrorFallback)
         /\ pc = "synth" /\ Last(verdicts) = "break"
         /\ calls.plain = calls.critic /\ calls.critic = Len(verdicts)
         /\ iteration = Len(verdicts)

C5_Witness ==
    /\ criticLog.called /\ criticLog.reply = Str(<<"{", "d=insufficient", "r=text">>)
    /\ criticLog.out.result = ParseErrorFallback
    /\ pc = "synth" /\ iteration = 1 /\ max_iterations = DefaultMaxIterations

\* C6: every transport or parse failure of a critic judgment is recovered
\* inside critic_evaluate as a sufficient verdict and never raised.
C6_CriticNeverRaises ==
    criticLog.called =>
       /\ criticLog.out.exc = ""
       /\ (criticLog.failed \/ criticLog.reply.t # "str"
             \/ json_loads(CleanResponse(criticLog.reply.v)).kind # "object")
            => Decision(criticLog.out.result) = Sufficient

\* C7: a failed gateway call (loop, critic or synthesis) leaves agentic_rag
\* as the raised HTTPError; the invocation makes no call after it.
C7_GatewayFailurePropagates ==
    /\ [][(ModelFails \/ CriticFails \/ SynthFails)
            => (pc' = "raised" /\ exc' = "HTTPError")]_vars
    /\ [](criticLog.failed => (pc = "raised" /\ exc = "HTTPError"))
    /\ [][(pc = "raised" /\ pc' = "raised") => calls' = calls]_vars
    /\ [](pc = "raised" => ~ENABLED AgentNext)

C7_Witness ==
    /\ pc = "raised" /\ exc = "HTTPError" /\ criticLog.failed
    /\ calls.loop = 2 /\ calls.critic = 2 /\ calls.synth = 0

\* C8: critic_evaluate returns the same for a verdict text whether the reply
\* is the bare text, the text in a fence tagged json or the text in an
\* untagged fence, with optional whitespace around.
C8_FenceStripping ==
    \A w \in Wrappings, b \in JsonBodies :
       (criticLog.called /\ criticLog.reply = Str(Wrap(w, b)))
         => /\ criticLog.out = critic_parse(Str(b))
            /\ criticLog.out.exc = ""
            /\ criticLog.out.result = Verdict(SelectSeq(b, IsMember))

C8_Witness ==
    /\ criticLog.called
    /\ criticLog.reply =
         Str(<<" ">> \o JsonFence \o <<"\n", "{", "d=needs_refinement", "r=text", "rq=zta", "}",
                                      "\n">> \o Fence \o <<"\n">>)
    /\ criticLog.out.result.decision = Str(<<"needs_refinement">>)
    /\ criticLog.out.result.refined_query = Str(<<"zero trust tenets">>)

\* C9 as stated: whenever an unregistered tool was dispatched in an
\* iteration, its diagnostic string is the Context the critic is called with.
DiagnosticOf(call) == UnknownTool(call.name)

C9_DiagnosticReachesCritic ==
    (criticLog.called /\ \E i \in 1..Len(tool_results) :
                            tool_results[i] = DiagnosticOf(UnknownCall))
      => criticLog.context = Str(DiagnosticOf(UnknownCall))

\* C9 amended: dispatching an unregistered tool returns "Unknown tool: <name>"
\* without raising, loading the index or embedding; the loop goes on; the
\* string is recorded as the tool result and becomes the Context; the critic
\* is called with the result of the last invocation of the reply, which is
\* the diagnostic when the unregistered tool is the last one.
C9_UnknownToolIsAResult ==
    /\ [][(ExecuteTool /\ ~IsSearch(tool_calls[tc].name)
             /\ json_loads(tool_calls[tc].arguments).kind = "object")
            => /\ pc' \in {"exec_tool", "critic"}
               /\ exc' = ""
               /\ tool_results' = Append(tool_results, DiagnosticOf(tool_calls[tc]))
               /\ context' = Str(DiagnosticOf(tool_calls[tc]))
               /\ Last(messages').role = "tool"
               /\ Last(messages').content = Str(DiagnosticOf(tool_calls[tc]))
               /\ index_loads' = index_loads /\ index_cache' = index_cache
               /\ calls' = Bump(calls, "exec")]_vars
    /\ [](criticLog.called =>
            /\ tool_results # <<>>
            /\ criticLog.context = Str(Last(tool_results))
            /\ criticLog.query = user_query)

C9_Witness ==
    /\ criticLog.called /\ Len(tool_results) = 2
    /\ tool_results[2] = DiagnosticOf(UnknownCall)
    /\ tool_results[1] # DiagnosticOf(UnknownCall)
    /\ criticLog.context = Str(<<"Unknown tool: ", "does_not_exist">>)
    /\ pc = "call_model"

\* C10: an exception raised while a turn is processed never ends the shell:
\* the error is reported and the shell reads again, turn after turn.
C10_ShellSurvivesTurn ==
    /\ [][(sh_pc = "turn" /\ pc = "raised")
            => (sh_pc' = "reading" /\ errors' = errors + 1 /\ exit_code' = exit_code)]_vars
    /\ []((sh_pc = "exited" /\ turns > 0) => exit_code = 0)
    /\ []((sh_pc = "reading" /\ turns < MaxTurns) => ENABLED ShellRead)

C10_Witness ==
    /\ sh_pc = "reading" /\ turns = 2 /\ errors = 2
    /\ exit_code = -1

\* C11 as stated: within one process load_index is executed at most once,
\* whatever the sequence of shell start-up, invocations and tool dispatches.
C11_LoadsAtMostOnce == index_loads <= 1

\* content that is missing, null or the empty string
EmptyContent(c) == ~Truthy(c)

\* C12 as stated: a loop reply without tool invocation whose content is
\* absent, null or the empty string makes agentic_rag return the fixed
\* string of line 202.
C12_EmptyDirectContentFallsBack ==
    (pc = "returned" /\ ret_site = "direct" /\ EmptyContent(response.content))
      => result = Str(<<"I couldn't find relevant information.">>)

\* C13 as stated: on the synthesis path the result is the content of the
\* synthesis reply, and the fixed string of line 219 when that content is
\* absent, null or the empty string.
C13_EmptySynthesisContentFallsBack ==
    (pc = "returned" /\ ret_site = "synthesis")
      => result = (IF EmptyContent(response.content)
                   THEN Str(<<"Unable to generate response.">>)
                   ELSE response.content)

IsPrefix(a, b) == Len(a) <= Len(b) /\ SubSeq(b, 1, Len(a)) = a

\* C14: against fixed deterministic stubs, an invocation that repeats the
\* previous one (same query, same max_iterations, same process) issues the
\* same gateway, critic and retrieval calls with the same arguments in the
\* same order, and ends the same way with the same result.
C14_Deterministic ==
    (stubbed /\ previous.ran)
      => /\ IsPrefix(history, previous.trace)
         /\ pc \in {"returned", "raised"}
              => /\ history = previous.trace
                 /\ pc = previous.pc /\ result = previous.result /\ exc = previous.exc

C14_Witness ==
    /\ stubbed /\ previous.ran /\ previous.warm
    /\ pc = "returned" /\ ret_site = "synthesis" /\ result.t = "str"
    /\ index_loads = 1 /\ calls.load = 0 /\ calls.embed = 2
    /\ Len(history) = 7 /\ history = previous.trace
    /\ history[2].kind = "retrieve" /\ history[3].kind = "critic"
    /\ verdicts = <<"broaden", "broaden">>

\* C15 as stated: an empty retrieval result is dispatched as the sentinel
\* string, the critic is invoked with the sentinel as Context, and neither
\* the dispatcher nor the critic step raises.
C15_SentinelNeverRaises ==
    /\ format_context(retrieve(0, DefaultTopK)) = NoRelevant
    /\ (tool_results # <<>> /\ Last(tool_results) = NoRelevant /\ tc = 0)
         => (criticLog.called => /\ criticLog.context = Str(NoRelevant)
                                 /\ criticLog.out.exc = ""
                                 /\ pc # "raised")

\* C16: the critic is called in every iteration that has executed its tool
\* invocations, with the user query the invocation was started with and
\* with exactly the result of the last invocation executed in that
\* iteration; the Context that reaches the synthesis prompt is that last
\* result too, with nothing of earlier invocations or iterations in it.
C16_CriticSeesLastResult ==
    /\ Running => (messages # <<>> /\ messages[1] = UserMessage(user_query))
    /\ pc = "critic"
         => /\ Len(tool_results) = Len(response.tool_calls.v)
            /\ context = Str(Last(tool_results))
            /\ calls.critic = iteration - 1
    /\ criticLog.called
         => /\ criticLog.query = user_query
            /\ tool_results # <<>> /\ criticLog.context = Str(Last(tool_results))
            /\ calls.critic = iteration
    /\ pc = "synth"
         => \/ max_iterations = 0 /\ context = None /\ tool_results = <<>>
            \/ /\ tool_results # <<>> /\ context = Str(Last(tool_results))
               /\ criticLog.called /\ criticLog.context = context

C16_Witness ==
    /\ pc = "synth" /\ iteration = 2 /\ verdicts = <<"refine", "break">>
    /\ Len(tool_results) = 2
    /\ tool_results[1] = UnknownTool("does_not_exist")
    /\ tool_results[2] # tool_results[1] /\ tool_results[2] # NoRelevant
    /\ criticLog.query = user_query /\ criticLog.context = Str(tool_results[2])
    /\ context = Str(tool_results[2])

\* positions of the tool-role messages of the conversation
ToolPositions == {i \in 1..Len(messages) : messages[i].role = "tool"}

\* C17: while an invocation runs, the conversation starts with the user
\* query and only grows; every executed tool invocation has added one
\* assistant message carrying that invocation alone, immediately followed by
\* one tool message with the invocation's id and its dispatcher result, in
\* the order of the reply; no tool or assistant message stands unpaired.
C17_ConversationPaired ==
    /\ [](Running =>
            /\ messages # <<>> /\ messages[1] = UserMessage(user_query)
            /\ Cardinality(ToolPositions) = calls.exec
            /\ \A i \in 1..Len(messages) :
                 /\ messages[i].role = "tool"
                      => /\ i > 1 /\ messages[i - 1].role = "assistant"
                         /\ Len(messages[i - 1].tool_calls) = 1
                         /\ messages[i - 1].tool_calls[1].id = messages[i].tool_call_id
                         /\ messages[i].content.t = "str"
                 /\ messages[i].role = "assistant"
                      => /\ i < Len(messages) /\ messages[i + 1].role = "tool"
                         /\ messages[i].content = None
            /\ \A j \in 1..Len(tool_results) :
                 LET at == Len(messages) - 2 * (Len(tool_results) - j)
                              - (IF pc \in {"call_model", "synth"}
                                    /\ Last(verdicts) # "break" THEN 1 ELSE 0)
                 IN  /\ messages[at].role = "tool"
                     /\ messages[at].content = Str(tool_results[j])
                     /\ messages[at].tool_call_id = response.tool_calls.v[j].id
                     /\ messages[at - 1].tool_calls = <<response.tool_calls.v[j]>>)
    /\ [][(Running /\ Running') => IsPrefix(messages, messages')]_vars
    /\ [][(pc = "exec_tool" /\ pc' \in {"exec_tool", "critic"})
            => /\ Len(messages') = Len(messages) + 2
               /\ messages'[Len(messages')].tool_call_id = tool_calls[tc].id]_vars

C17_Witness ==
    /\ pc = "critic" /\ iteration = 2 /\ verdicts = <<"refine">>
    /\ Len(messages) = 8 /\ Len(tool_results) = 2
    /\ messages[4].role = "user"
    /\ messages[6].role = "tool" /\ messages[6].tool_call_id = CallId(1)
    /\ messages[6].content = Str(NoRelevant)
    /\ messages[8].role = "tool" /\ messages[8].tool_call_id = CallId(2)
    /\ messages[8].content = Str(UnknownTool("does_not_exist"))

\* the verdict the critic call of this iteration returned
Returned_verdict == criticLog.out.result

\* C18: after a critic evaluation that returned, exactly one of three things
\* has happened: the decision is sufficient (or missing), the loop is left
\* and no message is appended; the decision is needs_refinement with a
\* non-empty refined_query, one user message ending with that query is
\* appended and control is back at the loop condition; any other verdict,
\* one user message asking for a broader search is appended and control is
\* back at the loop condition.
C18_ThreeWayBranch ==
    (criticLog.called /\ criticLog.out.exc = "")
      => LET d     == Get(Returned_verdict.decision, Str(<<"sufficient">>))
             rq    == Returned_verdict.refined_query
             usable == rq.t = "str" /\ rq.v # <<>>
             n     == Len(messages)
         IN  /\ pc \in {"call_model", "synth"}
             /\ d = Str(<<"sufficient">>)
                  => /\ pc = "synth" /\ Last(verdicts) = "break"
                     /\ messages[n].role = "tool"
             /\ (d = Str(<<"needs_refinement">>) /\ usable)
                  => /\ pc = AfterBody(iteration, max_iterations)
                     /\ Last(verdicts) = "refine"
                     /\ messages[n].role = "user" /\ messages[n - 1].role = "tool"
                     /\ SubSeq(messages[n].content.v, 2, Len(messages[n].content.v)) = rq.v
                     /\ messages[n] # BroadenMessage
             /\ (d # Str(<<"sufficient">>) /\ ~(d = Str(<<"needs_refinement">>) /\ usable))
                  => /\ pc = AfterBody(iteration, max_iterations)
                     /\ Last(verdicts) = "broaden"
                     /\ messages[n] = BroadenMessage /\ messages[n - 1].role = "tool"

C18_Witness ==
    /\ criticLog.called /\ criticLog.out.exc = ""
    /\ Returned_verdict.decision = Str(<<"needs_refinement">>)
    /\ Returned_verdict.refined_query = Str(<<>>)
    /\ verdicts = <<"refine", "broaden">> /\ pc = "call_model" /\ iteration = 2
    /\ Last(messages) = BroadenMessage
    /\ \E i \in 1..Len(messages) :
         messages[i].role = "user" /\ Last(messages[i].content.v) = "zero trust tenets"

\* C19: in whatever iteration a gateway reply carries no tool invocation,
\* agentic_rag has returned at once what that reply holds as content (the
\* fixed string when the reply has no content key): no synthesis call is
\* made, the critic calls are those of the earlier iterations only, and the
\* Context of earlier iterations is not in the result.
C19_DirectAnswerAnyIteration ==
    /\ (calls.loop >= 1 /\ calls.synth = 0 /\ pc # "raised" /\ ~HasToolCalls(response))
         => (pc = "returned" /\ ret_site = "direct")
    /\ (pc = "returned" /\ ret_site = "direct")
         => /\ ~HasToolCalls(response)
            /\ iteration >= 1 /\ iteration <= max_iterations
            /\ calls.loop = iteration /\ calls.critic = iteration - 1
            /\ calls.exec >= iteration - 1
            /\ calls.synth = 0
            /\ Len(verdicts) = iteration - 1 /\ NoBreak
            /\ result = (IF response.content.t = "absent"
                         THEN Str(<<"I couldn't find relevant information.">>)
                         ELSE response.content)
            /\ iteration > 1 => (context.t = "str" /\ result # context)

C19_Witness ==
    /\ pc = "returned" /\ ret_site = "direct" /\ iteration = 3
    /\ max_iterations = DefaultMaxIterations
    /\ verdicts = <<"broaden", "refine">>
    /\ context.t = "str" /\ context.v # NoRelevant
    /\ result = Str(<<"Zero trust assumes no implicit trust.">>)
    /\ calls.loop = 3 /\ calls.critic = 2 /\ calls.synth = 0

\* the stripped inputs that are quit, exit or q up to case
ExitInputs == {<<"q">>, <<"Q", "U", "I", "T">>, <<"e", "x", "i", "t">>}

\* C20: the shell stops reading only on an input that is quit, exit or q
\* once trimmed and case-folded, or on an interrupt.  Any other event
\* leaves it reading: an empty line returns to the prompt with no
\* agentic_rag call, any other line starts one agentic_rag call with that
\* line, and no second call is started before the turn is over.
C20_ShellLeavesOnlyOnExit ==
    /\ [][(sh_pc \in {"reading", "turn"} /\ sh_pc' = "exited")
            => /\ exit_code' = 0
               /\ \/ interrupted'
                  \/ sh_pc = "reading" /\ user_input' \in ExitInputs]_vars
    /\ [][(sh_pc = "reading" /\ turns' = turns + 1 /\ ~interrupted')
            => IF user_input' \in ExitInputs
               THEN sh_pc' = "exited" /\ pc' = "idle"
               ELSE IF user_input' = <<>>
               THEN sh_pc' = "reading" /\ pc' = "idle" /\ calls' = NoCalls
               ELSE /\ sh_pc' = "turn" /\ pc' = "call_model"
                    /\ user_query' = Str(user_input') /\ user_input' # <<>>
                    /\ max_iterations' = DefaultMaxIterations
                    /\ iteration' = 0 /\ calls' = NoCalls]_vars
    /\ [][(sh_pc = "turn" /\ sh_pc' = "turn")
            => /\ user_query' = user_query /\ user_input' = user_input
               /\ pc \notin {"idle", "returned", "raised"} /\ pc' # "idle"
               /\ iteration' >= iteration /\ calls'.loop >= calls.loop]_vars
    /\ [][(sh_pc = "turn" /\ sh_pc' # "turn")
            => (sh_pc' = "reading" \/ interrupted')]_vars

C20_Witness ==
    /\ sh_pc = "exited" /\ exit_code = 0 /\ ~interrupted
    /\ user_input = <<"Q", "U", "I", "T">>
    /\ turns = 2 /\ errors = 1

\* the tool names and argument payloads a reply may carry
DispatchNames == {SearchTool, "does_not_exist"}
DispatchArguments ==
    {<<"{", "query=zt", "}">>, <<"{", "query=xyz", "top_k=1", "}">>, <<"{", "}">>}

\* C21: execute_tool never returns the empty string, so the guard of line
\* 175 never skips the critic: an iteration whose invocations have all been
\* executed goes on to the critic, the critic is called once there, and the
\* critic calls made are as many as the iterations that executed their
\* tools to the end.
C21_CriticOncePerToolIteration ==
    /\ [](\A name \in DispatchNames, a \in DispatchArguments, f \in IndexFiles,
             cached \in BOOLEAN :
             LET r == execute_tool(name, json_loads(a), cached, f, TRUE)
             IN  r.exc = "" => r.value # <<>>)
    /\ [](/\ \A j \in 1..Len(tool_results) : tool_results[j] # <<>>
          /\ pc \in {"call_model", "synth"}
               => (calls.critic = iteration /\ Len(verdicts) = iteration)
          /\ pc \in {"exec_tool", "critic"} => calls.critic = iteration - 1)
    /\ [][(pc = "exec_tool" /\ pc' \notin {"exec_tool", "raised", "idle"})
            => (pc' = "critic" /\ tc = Len(tool_calls) /\ calls'.critic = calls.critic)]_vars
    /\ [][calls'.critic > calls.critic
            => (pc = "critic" /\ calls'.critic = calls.critic + 1)]_vars
    /\ [][(pc = "critic" /\ pc' # "idle") => calls'.critic = calls.critic + 1]_vars

C21_Witness ==
    /\ pc = "call_model" /\ iteration = 2 /\ calls.critic = 2 /\ calls.exec = 2
    /\ verdicts = <<"broaden", "broaden">>
    /\ tool_results = <<NoRelevant>> /\ criticLog.context = Str(NoRelevant)
    /\ max_iterations = DefaultMaxIterations

\* the critic's reply of this iteration is a JSON object without a decision
NoDecisionReply ==
    /\ criticLog.called /\ ~criticLog.failed /\ criticLog.reply.t = "str"
    /\ LET parsed == json_loads(CleanResponse(criticLog.reply.v))
       IN  /\ parsed.kind = "object"
           /\ \A i \in 1..Len(parsed.members) : Member(parsed.members[i])[1] # "decision"

\* C22: a verdict that critic_evaluate returns for a reply that is a JSON
\* object without a decision field ends the loop in that iteration: the next
\* call is the synthesis call and no user message has been appended, even
\* when the verdict carries a refined_query.
C22_MissingDecisionIsSufficient ==
    /\ (NoDecisionReply /\ criticLog.out.exc # "")
         => (criticLog.out.exc = "TypeError" /\ pc = "raised")   \* "reasoning": null
    /\ (NoDecisionReply /\ criticLog.out.exc = "")
      => /\ criticLog.out.result.decision = Absent
         /\ pc = "synth" /\ calls.synth = 0
         /\ verdicts # <<>> /\ Last(verdicts) = "break" /\ Len(verdicts) = iteration
         /\ Last(messages).role = "tool"
         /\ Last(messages).content = criticLog.context

C22_Witness ==
    /\ NoDecisionReply /\ criticLog.out.exc = ""
    /\ criticLog.out.result.refined_query = Str(<<"zero trust tenets">>)
    /\ pc = "synth" /\ iteration = 2 /\ verdicts = <<"broaden", "break">>
    /\ Len(messages) = 6 /\ max_iterations = DefaultMaxIterations

AllFailed(log) == \A k \in 1..Len(log) : log[k].failed

\* the waits after the failed attempts 0 .. m-1
Backoff(m) == [a \in 1..m |-> 2 ^ (a - 1)]

\* C25: embed_with_retry(text, max_retries = n) with n >= 1 calls the gateway
\* at most n times; while it runs every call so far has failed and each was
\* followed by a wait of 2^a seconds (a the 0-based attempt); when it has
\* returned, only its last call can have succeeded, the waits are those
\* between consecutive calls (none after the last), and it returned that
\* call's vector, or None when that call failed too, which then was call n.
\* It has no exceptional exit.
C25_RetryDiscipline ==
    /\ em_pc \in {"idle", "attempt", "returned"}
    /\ (em_pc # "idle" /\ max_retries >= 1)
         => /\ Len(gateway_log) <= max_retries
            /\ em_pc = "attempt"
                 => /\ attempt < max_retries /\ Len(gateway_log) = attempt
                    /\ AllFailed(gateway_log) /\ sleeps = Backoff(attempt)
            /\ em_pc = "returned"
                 => /\ gateway_log # <<>>
                    /\ AllFailed(SubSeq(gateway_log, 1, Len(gateway_log) - 1))
                    /\ sleeps = Backoff(Len(gateway_log) - 1)
                    /\ IF Last(gateway_log).failed
                         THEN Len(gateway_log) = max_retries /\ embedding = None
                         ELSE embedding = Last(gateway_log).vector /\ embedding # None

C25_Witness ==
    /\ bi_pc = "none" /\ em_pc = "returned" /\ max_retries = 3
    /\ Len(gateway_log) = 3 /\ AllFailed(gateway_log)
    /\ sleeps = <<1, 2>> /\ embedding = None

\* the positions (1-based) of the chunks visited whose embedding succeeded
Kept ==
    LET Embedded(k) == outcomes[k] # None
    IN  SelectSeq([k \in 1..Len(outcomes) |-> k], Embedded)

\* C23: at every point of build_index the lists embeddings and metadata have
\* one entry each per chunk visited whose embedding succeeded, in input
\* order: metadata[j] is the record of that chunk and embeddings[j] the
\* vector embed_with_retry returned for it; a chunk whose embedding failed
\* is in neither. What build_index returns is that metadata list and an
\* index holding exactly those vectors in that order, all chunks visited.
C23_VectorsAndMetadataAligned ==
    bi_pc # "none"
      => /\ Len(outcomes) = chunk_i /\ chunk_i <= Len(chunks)
         /\ Len(metadata) = Len(Kept) /\ Len(embeddings) = Len(Kept)
         /\ \A j \in 1..Len(Kept) :
              /\ metadata[j] = [chunk_id |-> chunks[Kept[j]].chunk_id,
                                filename |-> chunks[Kept[j]].filename,
                                page_num |-> chunks[Kept[j]].page_num,
                                text |-> chunks[Kept[j]].text]
              /\ embeddings[j] = outcomes[Kept[j]]
              /\ embeddings[j] = [vector_of |-> metadata[j].text]
         /\ bi_pc = "returned" => (chunk_i = Len(chunks) /\ index = embeddings)
         /\ bi_pc # "returned" => index = <<>>

C23_Witness ==
    /\ bi_pc = "returned" /\ Len(chunks) = 2 /\ chunks[1].text # chunks[2].text
    /\ outcomes[1] = None /\ outcomes[2] # None
    /\ Len(metadata) = 1 /\ metadata[1].chunk_id = chunks[2].chunk_id
    /\ index = <<[vector_of |-> chunks[2].text]>>

\* the tokens a chunk holds
Width(c) == c.end - c.start

\* C24: for chunk_size > overlap >= 0 chunk_text terminates (it returns, and
\* the tokens that remain after start shrink with every round of the loop,
\* a round starting only while some remain), and at every point its chunks cover the
\* tokens without gap: the first starts at token 0, each next one starts
\* chunk_size - overlap after the previous one and not behind its end,
\* sharing exactly overlap tokens with it unless it is cut by the end of
\* the tokens; no chunk is wider than chunk_size; once returned, the last
\* chunk ends at the last token, and a text of at most chunk_size tokens
\* has given exactly one chunk.
C24_ChunksCoverTokens ==
    /\ [](ct_pc \in {"loop", "returned"}
           => /\ chunk_size > overlap /\ overlap >= 0
              /\ \A k \in 1..Len(ct_chunks) :
                   /\ ct_chunks[k].start = (k - 1) * (chunk_size - overlap)
                   /\ ct_chunks[k].start <= ct_chunks[k].end
                   /\ ct_chunks[k].end <= tokens_len
                   /\ Width(ct_chunks[k]) <= chunk_size
                   /\ k > 1 => /\ ct_chunks[k].start <= ct_chunks[k - 1].end
                               /\ ct_chunks[k].start < ct_chunks[k].end
                               /\ Width(ct_chunks[k]) = chunk_size
                                    => ct_chunks[k - 1].end - ct_chunks[k].start = overlap
              /\ ct_pc = "loop"
                   => /\ start < tokens_len
                      /\ start = Len(ct_chunks) * (chunk_size - overlap)
              /\ ct_pc = "returned"
                   => /\ ct_chunks # <<>>
                      /\ ct_chunks[1].start = 0
                      /\ ct_chunks[Len(ct_chunks)].end = tokens_len
                      /\ tokens_len <= chunk_size => Len(ct_chunks) = 1)
    /\ [][(ct_pc = "loop" /\ ct_pc' = "loop")
            => (tokens_len - start' < tokens_len - start /\ tokens_len - start' > 0)]_vars
    /\ [][ct_pc = "returned" => ct_pc' = "returned"]_vars
    /\ <>(ct_pc = "returned")

C24_Witness ==
    /\ ct_pc = "returned" /\ tokens_len = 6 /\ chunk_size = 3 /\ overlap = 1
    /\ ct_chunks = <<[start |-> 0, end |-> 3], [start |-> 2, end |-> 5],
                     [start |-> 4, end |-> 6]>>

====
